---- MODULE Spec2Model ----
(***************************************************************************)
(* Model of the dice roller: rcmd.rs (RollCommand, FromStr, RollResult,    *)
(* Display) and main.rs (argument pipeline).                               *)
(*                                                                         *)
(* Text is a sequence of one-character strings.  A u32 is a pair           *)
(* <<hi, lo>> of 16-bit limbs (value hi * 2^16 + lo), so that the full     *)
(* 32-bit width is kept; a "wide" number is such a pair whose hi limb may  *)
(* exceed 16 bits (the mathematical value, before it is stored in a u32).  *)
(***************************************************************************)
EXTENDS Integers, Sequences, FiniteSets, TLC

VARIABLES
    s,                \* from_str: the string to parse
    parsed,           \* from_str: its Result, once called
    cmd,              \* a RollCommand built with new
    f,                \* the generation function handed to result
    outcome,          \* the RollResult of result(f), with the calls made to f
    tot,              \* what total() returned
    shown,            \* what to_string() (Display::fmt) returned
    overflow_checks,  \* whether the build panics on integer overflow
    args,             \* main: std::env::args()
    rng,              \* main: the randomness source ("none", "ok", "failed")
    next_arg,         \* main: position of the argument iterator
    rolls,            \* main: the vector being collected
    draws,            \* main: history of the draws made from rng
    stdout,           \* main: the lines written so far
    pc                \* main: "start", "collect", "print", "returned",
                      \*       "panicked", "aborted"
vars == <<s, parsed, cmd, f, outcome, tot, shown, overflow_checks,
          args, rng, next_arg, rolls, draws, stdout, pc>>

\* ------------------------------------------------------------------ bounds
MaxFrags == 3
MaxCount == 4
MaxArgs == 2

\* ------------------------------------------------------------ u32 numbers
LimbBase == 65536
U32(n) == <<n \div LimbBase, n % LimbBase>>
U32Max == <<LimbBase - 1, LimbBase - 1>>
Zero == <<0, 0>>
Fits(w) == w[1] < LimbBase
Norm(h, l) == <<h + (l \div LimbBase), l % LimbBase>>
WideAdd(a, b) == Norm(a[1] + b[1], a[2] + b[2])
WideMul10(a) == Norm(a[1] * 10, a[2] * 10)
Wrap(w) == <<w[1] % LimbBase, w[2]>>
Less(a, b) == a[1] < b[1] \/ (a[1] = b[1] /\ a[2] < b[2])
Leq(a, b) == a = b \/ Less(a, b)
Small(a) == a[1] * LimbBase + a[2]

RECURSIVE Sum(_)
Sum(vs) == IF vs = <<>> THEN Zero ELSE WideAdd(Sum(SubSeq(vs, 1, Len(vs) - 1)), vs[Len(vs)])

\* ------------------------------------------------------------------ text
Digits == <<"0", "1", "2", "3", "4", "5", "6", "7", "8", "9">>
IsDigit(c) == \E i \in 1..10 : Digits[i] = c
DigitVal(c) == (CHOOSE i \in 1..10 : Digits[i] = c) - 1

\* u32::to_string / "{}" of an unsigned number: decimal, no padding
RECURSIVE to_string(_)
to_string(n) ==
    LET t == (n[1] % 10) * LimbBase + n[2]
        q == <<n[1] \div 10, t \div 10>>
        d == <<Digits[(t % 10) + 1]>>
    IN IF q = Zero THEN d ELSE to_string(q) \o d

RECURSIVE connect(_, _)
connect(strs, sep) ==
    IF strs = <<>> THEN <<>>
    ELSE IF Len(strs) = 1 THEN strs[1]
    ELSE strs[1] \o sep \o connect(Tail(strs), sep)

\* str::split(char): the fragments between delimiters, empty ones included
RECURSIVE split(_, _)
split(str, delim) ==
    IF \A i \in 1..Len(str) : str[i] # delim THEN <<str>>
    ELSE LET k == CHOOSE i \in 1..Len(str) :
                      str[i] = delim /\ \A j \in 1..(i - 1) : str[j] # delim
         IN <<SubSeq(str, 1, k - 1)>> \o split(SubSeq(str, k + 1, Len(str)), delim)

\* str::parse::<u32>(): optional leading '+', then one or more decimal
\* digits, accumulated with checked multiplication and addition
RECURSIVE parse_digits(_, _, _)
parse_digits(str, i, acc) ==
    IF i > Len(str) THEN [ok |-> TRUE, val |-> acc]
    ELSE IF ~IsDigit(str[i]) THEN [ok |-> FALSE, val |-> Zero]
    ELSE LET m == WideMul10(acc)
             a == WideAdd(m, <<0, DigitVal(str[i])>>)
         IN IF ~Fits(m) \/ ~Fits(a) THEN [ok |-> FALSE, val |-> Zero]
            ELSE parse_digits(str, i + 1, a)

parse(str) ==
    LET ds == IF str # <<>> /\ str[1] = "+" THEN Tail(str) ELSE str
    IN IF ds = <<>> THEN [ok |-> FALSE, val |-> Zero]
       ELSE parse_digits(ds, 1, Zero)

RECURSIVE filter_map(_)
filter_map(frags) ==
    IF frags = <<>> THEN <<>>
    ELSE LET r == parse(frags[1])
         IN (IF r.ok THEN <<r.val>> ELSE <<>>) \o filter_map(Tail(frags))

\* ----------------------------------------------------------- RollCommand
new(c, r) == [count |-> c, range |-> r]
NoCommand == new(Zero, Zero)

InvalidCommand == <<"I", "n", "v", "a", "l", "i", "d", " ",
                    "c", "o", "m", "m", "a", "n", "d", ":", " ">>

\* mutants of from_str: the two integers taken in the wrong order; the short
\* form's count lost; a two-integer pattern that also takes longer lists
from_str_swapped(str) ==
    LET ints == filter_map(split(str, "d"))
    IN IF Len(ints) = 2 THEN [ok |-> TRUE, cmd |-> new(ints[2], ints[1]), err |-> <<>>]
       ELSE IF Len(ints) = 1 THEN [ok |-> TRUE, cmd |-> new(U32(1), ints[1]), err |-> <<>>]
       ELSE [ok |-> FALSE, cmd |-> NoCommand, err |-> InvalidCommand \o str \o <<".">>]

from_str_short(str) ==
    LET ints == filter_map(split(str, "d"))
    IN IF Len(ints) = 2 THEN [ok |-> TRUE, cmd |-> new(ints[1], ints[2]), err |-> <<>>]
       ELSE IF Len(ints) = 1 THEN [ok |-> TRUE, cmd |-> new(ints[1], U32(1)), err |-> <<>>]
       ELSE [ok |-> FALSE, cmd |-> NoCommand, err |-> InvalidCommand \o str \o <<".">>]

from_str_prefix(str) ==
    LET ints == filter_map(split(str, "d"))
    IN IF Len(ints) >= 2 THEN [ok |-> TRUE, cmd |-> new(ints[1], ints[2]), err |-> <<>>]
       ELSE IF Len(ints) = 1 THEN [ok |-> TRUE, cmd |-> new(U32(1), ints[1]), err |-> <<>>]
       ELSE [ok |-> FALSE, cmd |-> NoCommand, err |-> InvalidCommand \o str \o <<".">>]

from_str(str) ==
    LET ints == filter_map(split(str, "d"))
    IN IF Len(ints) = 2 THEN [ok |-> TRUE, cmd |-> new(ints[1], ints[2]), err |-> <<>>]
       ELSE IF Len(ints) = 1 THEN [ok |-> TRUE, cmd |-> new(U32(1), ints[1]), err |-> <<>>]
       ELSE [ok |-> FALSE, cmd |-> NoCommand, err |-> InvalidCommand \o str \o <<".">>]

\* ----------------------------------------------- generation functions (f)
\* A generation function is a closure with captured state:
\*   "max" : |max| max                          (doc example of result)
\*   "seq" : |_| *rng.next().unwrap()           (doc example of result)
\*   "rng" : |max| rng.gen_range(0, max) + 1    (main)
\* src is what the closure captures: the remaining items of the iterator, or
\* the values the randomness source will yield, one per draw.

\* The values a draw from [0, high) can yield: every u32 below high
Draws(high) ==
    UNION {{<<h, l>> : l \in 0..(IF h < high[1] THEN LimbBase - 1 ELSE high[2] - 1)} :
              h \in 0..high[1]}

\* Rng::gen_range(low, high) with low = 0: panics unless low < high, else
\* yields the source's next value d, a value of [0, high)
gen_range(high, d) ==
    IF ~Less(Zero, high) THEN [panicked |-> TRUE, ret |-> Zero]
    ELSE [panicked |-> FALSE, ret |-> d]

\* mutant of rng_closure: the draw used as it is, without the + 1
rng_closure_raw(g, max) ==
    LET d == gen_range(max, IF g.src = <<>> THEN Zero ELSE g.src[1])
    IN IF d.panicked THEN [panicked |-> TRUE, ret |-> Zero, f |-> g]
       ELSE [panicked |-> FALSE, ret |-> d.ret,
             f |-> [g EXCEPT !.src = Tail(g.src)]]

rng_closure(g, max) ==
    LET d == gen_range(max, IF g.src = <<>> THEN Zero ELSE g.src[1])
    IN IF d.panicked THEN [panicked |-> TRUE, ret |-> Zero, f |-> g]
       ELSE [panicked |-> FALSE,
             ret |-> Wrap(WideAdd(d.ret, U32(1))),
             f |-> [g EXCEPT !.src = Tail(g.src)]]

call(g, max) ==
    IF g.kind = "max" THEN [panicked |-> FALSE, ret |-> max, f |-> g]
    ELSE IF g.kind = "seq" THEN
        IF g.src = <<>> THEN [panicked |-> TRUE, ret |-> Zero, f |-> g]
        ELSE [panicked |-> FALSE, ret |-> g.src[1],
              f |-> [g EXCEPT !.src = Tail(g.src)]]
    ELSE rng_closure(g, max)

\* the iteration of (0..self.count).map(|_| f(self.range)), from index i
\* on; calls is the record of the invocations of f made so far
RECURSIVE collect(_, _, _, _, _)
collect(c, i, g, vals, calls) ==
    IF ~Less(i, c.count)
    THEN [panicked |-> FALSE, aborted |-> FALSE, values |-> vals, calls |-> calls, f |-> g]
    ELSE LET r == call(g, c.range)
         IN IF r.panicked
            THEN [panicked |-> TRUE, aborted |-> FALSE, values |-> <<>>,
                  calls |-> Append(calls, [arg |-> c.range, ret |-> Zero, returned |-> FALSE]),
                  f |-> r.f]
            ELSE collect(c, Wrap(WideAdd(i, U32(1))), r.f, Append(vals, r.ret),
                         Append(calls, [arg |-> c.range, ret |-> r.ret, returned |-> TRUE]))

\* mutant of result: the range starts at 1 instead of 0
result_from_one(c, g, capacity) ==
    IF Less(capacity, c.count)
    THEN [panicked |-> FALSE, aborted |-> TRUE, values |-> <<>>, calls |-> <<>>, f |-> g]
    ELSE collect(c, U32(1), g, <<>>, <<>>)

\* collect() first allocates a vector for the count elements the range
\* announces; capacity is the number of elements the allocator can provide
\* at that moment, and a failed allocation aborts the process before any
\* call of f
result(c, g, capacity) ==
    IF Less(capacity, c.count)
    THEN [panicked |-> FALSE, aborted |-> TRUE, values |-> <<>>, calls |-> <<>>, f |-> g]
    ELSE collect(c, Zero, g, <<>>, <<>>)

\* ------------------------------------------------------------ RollResult
\* a + b on u32: panics when overflow checks are compiled in, else wraps
add(a, b, checks) ==
    LET w == WideAdd(a, b)
    IN IF Fits(w) THEN [panicked |-> FALSE, val |-> w]
       ELSE IF checks THEN [panicked |-> TRUE, val |-> Zero]
       ELSE [panicked |-> FALSE, val |-> Wrap(w)]

RECURSIVE fold(_, _, _)
fold(vals, acc, checks) ==
    IF vals = <<>> THEN [panicked |-> FALSE, val |-> acc]
    ELSE LET r == add(acc, vals[1], checks)
         IN IF r.panicked THEN r ELSE fold(Tail(vals), r.val, checks)

total(vals, checks) == fold(vals, Zero, checks)

fmt(vals, checks) ==
    LET as_strings == [i \in 1..Len(vals) |-> to_string(vals[i])]
        t == total(vals, checks)
    IN IF t.panicked THEN [panicked |-> TRUE, text |-> <<>>]
       ELSE [panicked |-> FALSE,
             text |-> connect(as_strings, <<",", " ">>) \o <<" ", "(">>
                      \o to_string(t.val) \o <<")">>]

\* ---------------------------------------------------------------- inputs
SeqsOfLen(S, n) == [1..n -> S]
SeqsUpTo(S, n) == UNION {SeqsOfLen(S, k) : k \in 0..n}

\* numbers written into tokens: inside and outside the u32 range
Numbers == {U32(0), U32(1), U32(2), U32(6), U32Max,
            WideAdd(U32Max, U32(1)), WideMul10(U32Max)}
NotNumbers == {<<>>, <<"a", "b", "c">>, <<"0", "0", "7">>, <<"+", "6">>,
               <<"-", "1">>, <<"6", "a">>}
Fragments == {to_string(n) : n \in Numbers} \cup NotNumbers
Tokens == {connect(fs, <<"d">>) : fs \in UNION {SeqsOfLen(Fragments, k) : k \in 1..MaxFrags}}

Ranges == {U32(0), U32(1), U32(6), U32Max}
Commands == {new(U32(c), r) : c \in 0..MaxCount, r \in Ranges}
\* a count whose vector may not fit the memory of the machine
HugeCommands == {new(U32Max, r) : r \in Ranges}
\* what the allocator can provide when result is called: 2^30 elements
\* (4 GiB), or as many as any count asks for
Capacities == {<<16384, 0>>, U32Max}
Sources == {<<>>, <<U32(1), U32(2), U32(3), U32(4)>>, <<U32(6), U32(6)>>,
            <<U32Max, U32(1), U32(0)>>}
Generators == {[kind |-> "max", src |-> <<>>]}
              \cup {[kind |-> "seq", src |-> q] : q \in Sources}
\* main's closure over a source that yields a given sequence of values: for
\* a command, one value of [0, range) per die, taken among these values
SampleDraws == {Zero, U32(1), U32(4), <<LimbBase \div 2, 0>>, <<LimbBase - 1, LimbBase - 2>>}
ScriptedDraws(c) ==
    IF c.range = Zero THEN {<<>>}
    ELSE SeqsOfLen({d \in SampleDraws : Less(d, c.range)}, Small(c.count))
RngGenerators(c) == {[kind |-> "rng", src |-> q] : q \in ScriptedDraws(c)}

\* std::env::args(): the program's name, then the tokens
ProgramName == <<"r", "o", "l", "l">>
\* the ranges of the tokens are small, so that every draw can be enumerated
MainTokens == {<<"2", "d", "3">>, <<"d", "6">>, <<"a", "b", "c">>, <<"0">>,
               <<"0", "d", "0">>, to_string(U32Max) \o <<"d", "0">>}
\* an argument of the process that is not valid Unicode
NotUnicode == <<"\\xFF">>
IsUnicode(a) == a # NotUnicode
ArgLists == {<<ProgramName>> \o ts :
                ts \in SeqsUpTo(MainTokens \cup {NotUnicode}, MaxArgs)}

\* ---------------------------------------------------------------- states
NotParsed == [called |-> FALSE, ok |-> FALSE, cmd |-> NoCommand, err |-> <<>>]
NoOutcome == [state |-> "none", values |-> <<>>, calls |-> <<>>]
NoTotal == [state |-> "none", val |-> Zero]
NoText == [state |-> "none", text |-> <<>>]
NoGenerator == [kind |-> "max", src |-> <<>>]

ParseIdle == s = <<>> /\ parsed = NotParsed
LibIdle == /\ cmd = NoCommand /\ f = NoGenerator /\ outcome = NoOutcome
           /\ tot = NoTotal /\ shown = NoText
MainIdle == /\ args = <<>> /\ rng = "none" /\ next_arg = 1 /\ rolls = <<>>
            /\ draws = <<>> /\ stdout = <<>> /\ pc = "idle"

parseVars == <<s, parsed>>
libVars == <<cmd, f, outcome, tot, shown>>
mainVars == <<args, rng, next_arg, rolls, draws, stdout, pc>>

\* ------------------------------------------------- parser specification
InitParse == /\ s \in Tokens /\ parsed = NotParsed
             /\ overflow_checks = FALSE /\ LibIdle /\ MainIdle

FromStr == /\ ~parsed.called
           /\ LET r == from_str(s)
              IN parsed' = [called |-> TRUE, ok |-> r.ok, cmd |-> r.cmd, err |-> r.err]
           /\ UNCHANGED <<s, overflow_checks, libVars, mainVars>>

NextParse == FromStr
SpecParse == InitParse /\ [][NextParse]_vars

\* ------------------------------------------------ library specification
\* a huge count is paired with an iterator-backed function only: the run
\* of result then ends after at most Len(src) + 1 calls
InitLib == /\ \/ cmd \in Commands /\ f \in Generators
              \/ cmd \in Commands /\ f \in RngGenerators(cmd)
              \/ cmd \in HugeCommands /\ f \in Generators /\ f.kind = "seq"
           /\ overflow_checks \in BOOLEAN
           /\ outcome = NoOutcome /\ tot = NoTotal /\ shown = NoText
           /\ ParseIdle /\ MainIdle

\* a direct call of result, outside a run of main (pc = "idle")
Result == /\ pc = "idle" /\ outcome.state = "none"
          /\ \E capacity \in Capacities :
               LET r == result(cmd, f, capacity)
               IN /\ outcome' = [state |-> IF r.aborted THEN "aborted"
                                           ELSE IF r.panicked THEN "panicked"
                                           ELSE "returned",
                                 values |-> r.values, calls |-> r.calls]
                  /\ f' = r.f
          /\ UNCHANGED <<cmd, tot, shown, overflow_checks, parseVars, mainVars>>

Total == /\ outcome.state = "returned" /\ tot.state = "none"
         /\ LET t == total(outcome.values, overflow_checks)
            IN tot' = [state |-> IF t.panicked THEN "panicked" ELSE "returned",
                       val |-> t.val]
         /\ UNCHANGED <<cmd, f, outcome, shown, overflow_checks, parseVars, mainVars>>

Display == /\ outcome.state = "returned" /\ shown.state = "none"
           /\ LET d == fmt(outcome.values, overflow_checks)
              IN shown' = [state |-> IF d.panicked THEN "panicked" ELSE "returned",
                           text |-> d.text]
           /\ UNCHANGED <<cmd, f, outcome, tot, overflow_checks, parseVars, mainVars>>

NextLib == Result \/ Total \/ Display
SpecLib == InitLib /\ [][NextLib]_vars

\* --------------------------------------------------- main specification
\* description of the randomness-source error; its text comes from the OS
Description == <<"e", "r", "r", "o", "r">>

Init == /\ args \in ArgLists /\ overflow_checks \in BOOLEAN
        /\ rng = "none" /\ next_arg = 1 /\ rolls = <<>> /\ draws = <<>>
        /\ stdout = <<>> /\ pc = "start"
        /\ ParseIdle /\ LibIdle

OsRngOk == /\ pc = "start"
           /\ rng' = "ok" /\ pc' = "collect"
           /\ UNCHANGED <<args, next_arg, rolls, draws, stdout,
                          overflow_checks, parseVars, libVars>>

\* println! panics when standard output cannot be written
OsRngErr == /\ pc = "start"
            /\ rng' = "failed"
            /\ \E written \in BOOLEAN :
                 IF written
                 THEN stdout' = Append(stdout, Description) /\ pc' = "returned"
                 ELSE pc' = "panicked" /\ UNCHANGED stdout
            /\ UNCHANGED <<args, next_arg, rolls, draws,
                           overflow_checks, parseVars, libVars>>

\* the next argument yields no roll: std::env::args() panics when it
\* reaches an argument that is not valid Unicode; filter_map discards an
\* argument that does not parse
Skip == /\ pc = "collect" /\ next_arg <= Len(args)
        /\ IF ~IsUnicode(args[next_arg])
           THEN pc' = "panicked" /\ UNCHANGED next_arg
           ELSE /\ ~from_str(args[next_arg]).ok
                /\ next_arg' = next_arg + 1
                /\ pc' = pc
        /\ UNCHANGED <<args, rng, rolls, draws, stdout,
                       overflow_checks, parseVars, libVars>>

\* what the randomness source yields during one call of result: one value
\* of [0, range) per die; with range 0 the first draw panics before the
\* source is consulted
Choices(c) ==
    IF c.range = Zero THEN {<<>>}
    ELSE SeqsOfLen(Draws(c.range), Small(c.count))

\* map: an argument that parses is rolled with the randomness source
Roll == /\ pc = "collect" /\ next_arg <= Len(args)
        /\ IsUnicode(args[next_arg])
        /\ from_str(args[next_arg]).ok
        /\ LET c == from_str(args[next_arg]).cmd
           IN \E choices \in Choices(c), capacity \in Capacities :
                LET r == result(c, [kind |-> "rng", src |-> choices], capacity)
                IN /\ draws' = draws \o [k \in 1..Len(r.calls) |->
                                          [arg |-> next_arg, max |-> r.calls[k].arg,
                                           returned |-> r.calls[k].returned]]
                   /\ IF r.aborted
                      THEN pc' = "aborted" /\ UNCHANGED <<rolls, next_arg>>
                      ELSE IF r.panicked
                      THEN pc' = "panicked" /\ UNCHANGED <<rolls, next_arg>>
                      ELSE /\ rolls' = Append(rolls, r.values)
                           /\ next_arg' = next_arg + 1
                           /\ pc' = pc
        /\ UNCHANGED <<args, rng, stdout, overflow_checks, parseVars, libVars>>

\* collect() returns once the arguments are exhausted
Collected == /\ pc = "collect" /\ next_arg > Len(args)
             /\ pc' = "print"
             /\ UNCHANGED <<args, rng, next_arg, rolls, draws, stdout,
                            overflow_checks, parseVars, libVars>>

\* mutant of WriteLine: each roll is written as soon as it is produced,
\* without waiting for collect()
WriteLineLazy == /\ pc \in {"collect", "print"} /\ Len(stdout) < Len(rolls)
                 /\ \E written \in BOOLEAN :
                      LET d == fmt(rolls[Len(stdout) + 1], overflow_checks)
                      IN IF d.panicked \/ ~written
                         THEN pc' = "panicked" /\ UNCHANGED stdout
                         ELSE stdout' = Append(stdout, d.text) /\ pc' = pc
                 /\ UNCHANGED <<args, rng, next_arg, rolls, draws,
                                overflow_checks, parseVars, libVars>>

\* println!("{}", roll) for the next roll of the vector: panics when the
\* formatting panics (total) or when standard output cannot be written
WriteLine == /\ pc = "print" /\ Len(stdout) < Len(rolls)
             /\ \E written \in BOOLEAN :
                  LET d == fmt(rolls[Len(stdout) + 1], overflow_checks)
                  IN IF d.panicked \/ ~written
                     THEN pc' = "panicked" /\ UNCHANGED stdout
                     ELSE stdout' = Append(stdout, d.text) /\ pc' = pc
             /\ UNCHANGED <<args, rng, next_arg, rolls, draws,
                            overflow_checks, parseVars, libVars>>

Return == /\ pc = "print" /\ Len(stdout) = Len(rolls)
          /\ pc' = "returned"
          /\ UNCHANGED <<args, rng, next_arg, rolls, draws, stdout,
                         overflow_checks, parseVars, libVars>>

Next == OsRngOk \/ OsRngErr \/ Skip \/ Roll \/ Collected \/ WriteLine \/ Return
Spec == Init /\ [][Next]_vars

\* ------------------------------------------ the randomness path, both ways
\* main on its arguments, with every draw of the small ranges, together with
\* result on main's closure for the ranges up to the largest u32
InitRolls == Init \/ InitLib
NextRolls == Next \/ NextLib
SpecRolls == InitRolls /\ [][NextRolls]_vars

\* ---------------------------------------------------------------- claims
Contains(hay, needle) ==
    \E i \in 0..(Len(hay) - Len(needle)) : SubSeq(hay, i + 1, i + Len(needle)) = needle
Parses(a) == from_str(a).ok
\* the commands of the arguments that parse, in argument order
ParsedCommands(as) == [i \in 1..Len(SelectSeq(as, Parses)) |->
                          from_str(SelectSeq(as, Parses)[i]).cmd]
\* the rendering the specification describes, with the arithmetic sum
Rendering(vals) ==
    connect([i \in 1..Len(vals) |-> to_string(vals[i])], <<",", " ">>)
        \o <<" ", "(">> \o to_string(Sum(vals)) \o <<")">>

\* C1 (as stated): for all non-negative integers c and n, parsing the token
\* "{c}d{n}" succeeds with count = c and sides = n.
C1_AllIntegers ==
    parsed.called =>
        \A c \in Numbers, n \in Numbers :
            s = to_string(c) \o <<"d">> \o to_string(n)
                => parsed.ok /\ parsed.cmd = new(c, n)

\* C1 (amended): for all c and n of the u32 range (0 .. 2^32 - 1), parsing
\* the token "{c}d{n}" succeeds with count = c and sides = n.
C1_FullForm ==
    parsed.called =>
        \A c \in Numbers, n \in Numbers :
            (Fits(c) /\ Fits(n) /\ s = to_string(c) \o <<"d">> \o to_string(n))
                => parsed.ok /\ parsed.cmd = new(c, n)

C1_Witness ==
    /\ parsed.called /\ parsed.ok
    /\ s = to_string(U32(2)) \o <<"d">> \o to_string(U32Max)
    /\ parsed.cmd.range = U32Max

\* C2 (as stated): for all non-negative integers n, parsing the token "{n}"
\* succeeds with count = 1 and sides = n.
C2_AllIntegers ==
    parsed.called =>
        \A n \in Numbers : s = to_string(n) => parsed.ok /\ parsed.cmd = new(U32(1), n)

\* C2 (amended): for all n of the u32 range (0 .. 2^32 - 1), parsing the
\* token "{n}" succeeds with count = 1 and sides = n.
C2_ShortForm ==
    parsed.called =>
        \A n \in Numbers :
            (Fits(n) /\ s = to_string(n)) => parsed.ok /\ parsed.cmd = new(U32(1), n)

C2_Witness ==
    /\ parsed.called /\ parsed.ok
    /\ s = <<"6">> /\ parsed.cmd = new(U32(1), U32(6))

\* C7: from_str fails exactly when zero or at least three fragments of the
\* split parse as integers, the error then names the token; with one or two
\* such fragments it succeeds.
C7_FailsOnArity ==
    parsed.called =>
        LET frags == split(s, "d")
            n == Cardinality({i \in 1..Len(frags) : parse(frags[i]).ok})
        IN /\ (~parsed.ok) <=> (n = 0 \/ n >= 3)
           /\ parsed.ok <=> (n = 1 \/ n = 2)
           /\ (~parsed.ok) => Contains(parsed.err, s)

C7_Witness ==
    /\ parsed.called /\ ~parsed.ok
    /\ s = <<"2", "d", "6", "d", "1">>
    /\ Contains(parsed.err, s)

\* C3: result(f) calls f exactly count times, always with the range, and
\* returns the count values f returned, unmodified and in call order.
C3_ResultCallsInOrder ==
    outcome.state = "returned" =>
        /\ Len(outcome.calls) = Small(cmd.count)
        /\ Len(outcome.values) = Small(cmd.count)
        /\ \A i \in 1..Len(outcome.calls) :
              /\ outcome.calls[i].arg = cmd.range
              /\ outcome.calls[i].returned
              /\ outcome.values[i] = outcome.calls[i].ret
        /\ f.kind = "max" => \A i \in 1..Len(outcome.values) : outcome.values[i] = cmd.range
        /\ f.kind = "seq" => outcome.values \o f.src \in Sources

C3_Witness ==
    /\ outcome.state = "returned"
    /\ cmd = new(U32(4), U32(6)) /\ f.kind = "seq"
    /\ outcome.values = <<U32(1), U32(2), U32(3), U32(4)>>

\* C4 (as stated): every outcome renders as its decimal values joined by
\* ", ", one space, and the total (the sum of the values) in parentheses.
C4_RendersEveryOutcome ==
    shown.state # "none" =>
        /\ shown.state = "returned"
        /\ shown.text = Rendering(outcome.values)

\* C9 (as stated): total() is the arithmetic sum of the values, also when
\* that sum exceeds the largest u32.
C9_TotalIsSum ==
    tot.state # "none" =>
        /\ tot.state = "returned"
        /\ tot.val = Sum(outcome.values)

\* C5 (as stated): the program writes exactly one result line per argument
\* that parses, in argument order, whatever the other arguments are.
C5_OneLinePerParsedToken ==
    (rng = "ok" /\ pc \in {"returned", "panicked", "aborted"}) =>
        /\ Len(stdout) = Len(ParsedCommands(args))
        /\ \A i \in 1..Len(stdout) :
              /\ Len(rolls[i]) = Small(ParsedCommands(args)[i].count)
              /\ stdout[i] = fmt(rolls[i], overflow_checks).text

\* C8 (as stated): a run ends either with the acquisition failure reported
\* and no roll line, or normally with the line of every parsed argument; no
\* parsed argument aborts the run.
C8_NoAbort ==
    /\ pc \notin {"panicked", "aborted"}
    /\ pc = "returned" =>
          \/ rng = "failed" /\ stdout = <<Description>>
          \/ rng = "ok" /\ Len(stdout) = Len(ParsedCommands(args))

\* C6: on main's randomness path every value of every produced outcome lies
\* in [1, sides] of the command it was rolled for.
C6_ValuesInRange ==
    /\ \A i \in 1..Len(rolls) :
          /\ Len(rolls[i]) = Small(ParsedCommands(args)[i].count)
          /\ \A j \in 1..Len(rolls[i]) :
                /\ Leq(U32(1), rolls[i][j])
                /\ Leq(rolls[i][j], ParsedCommands(args)[i].range)
    /\ (f.kind = "rng" /\ outcome.state = "returned") =>
          /\ Len(outcome.values) = Small(cmd.count)
          /\ \A j \in 1..Len(outcome.values) :
                /\ Leq(U32(1), outcome.values[j])
                /\ Leq(outcome.values[j], cmd.range)

C6_Witness ==
    /\ Len(rolls) >= 2
    /\ rolls[1] = <<U32(4)>>
    /\ rolls[2] = <<U32(2), U32(3)>>

\* C10: the randomness source is drawn from in argument order, and nothing
\* is written before every argument has been simulated: once a roll line is
\* out, no simulation is pending and none has failed.
C10_SimulateThenWrite ==
    /\ \A i \in 1..Len(draws), j \in 1..Len(draws) :
          i < j => draws[i].arg <= draws[j].arg
    /\ (rng = "ok" /\ stdout # <<>>) =>
          /\ next_arg > Len(args)
          /\ Len(rolls) = Len(ParsedCommands(args))
          /\ \A k \in 1..Len(draws) : draws[k].returned

C10_Witness ==
    /\ rng = "ok" /\ Len(stdout) = 2 /\ pc = "returned"
    /\ \E i \in 1..Len(draws), j \in 1..Len(draws) : draws[i].arg < draws[j].arg
====
